---------------------------- MODULE Spec2Model ----------------------------
(***************************************************************************)
(* Model of .lib/normalize_jsx_structure.py: the JSX normaliser.           *)
(*                                                                         *)
(* A file's text is a sequence of tokens.  Every token stands for one      *)
(* fixed piece of text, and the regular expressions of the source are      *)
(* modelled by what they match on concatenations of these pieces:          *)
(*                                                                         *)
(*   "NL"     "\n"                                                         *)
(*   "I4"     "    "  (four blanks; NL and I4 are the \s tokens)           *)
(*   "TGT"    "//@target illustrator"                                      *)
(*   "LDR"    LOADER_STANDALONE                                            *)
(*   "PREF"   "app.preferences.setBooleanPreference(                       *)
(*                'ShowExternalJSXWarning', false);"                       *)
(*   "DOC"    "/** header */"                                              *)
(*   "CODE"   "var x = 1;"                                                 *)
(*   "CFG"    "var CFG = { scriptName: 'Foo' };"                           *)
(*   "OPEN"   "(function(){"          "CLOSE"  "})();"                     *)
(*   "MAIN"   "main();"                                                    *)
(*   "VAL"    "var validation = validateEnvironment();"                    *)
(*   "IFVAL"  "if (!validation.valid) {"                                   *)
(*   "IFDOC"  "if (!AIS.Document.hasDocument()) {"                         *)
(*   "IFSEL"  "if (!AIS.Document.hasSelection()) {"                        *)
(*   "ELSE"   "} else {"                                                   *)
(*   "ELSEIF" "} else if (!AIS.Document.hasSelection()) {"                 *)
(*   "TRY"    "try {"                 "CATCH"  "} catch (e) {"             *)
(*   "SHOWD"  "AIS.Error.show('Script error', e);"                         *)
(*   "SHOWN"  "AIS.Error.show('Foo error', e);"                            *)
(*   "RB"     "}"       "RP"  ")"     "SEMI"  ";"                          *)
(*   "ALERT"  "alert("                "RET"   "return"                     *)
(*   "SQ"     "'"                                                          *)
(*   "WD"     "Open a document."      "WS"    "Select an object."          *)
(*   "VMSG"   "SCRIPT.name + validation.message"                           *)
(*   "DEFMSG" "'Validation failed.'"                                       *)
(*   "BAR"    "// ======...======"    "EXE"   "// EXECUTE"                 *)
(***************************************************************************)
EXTENDS Integers, Sequences, FiniteSets, TLC

VARIABLES
    disk,     \* path -> the text of the file
    jsx,      \* path -> whether the file name ends with ".jsx"
    fault,    \* path -> "none", or the I/O call that raises: "read", "write"
    pc,       \* main(): "idle", "walk" (in the loop), "done", "raised"
    idx,      \* main(): the next file of the walk
    files,    \* main(): files
    count,    \* main(): count
    printed,  \* what main() printed: <<>>, or <<files, count>>
    cur,      \* the latest call of process_jsx_file: its locals and outcome
    runs      \* calls of the entry point so far

vars == <<disk, jsx, fault, pc, idx, files, count, printed, cur, runs>>

\* ------------------------------------------------------------------ bounds
MaxHeadSegs == 3
MaxTailSegs == 2
MaxRuns == 3
NumFiles == 2

\* ------------------------------------------------------- text primitives
Max(S) == CHOOSE x \in S : \A y \in S : y <= x
Min(S) == CHOOSE x \in S : \A y \in S : x <= y

\* \s of the regular expressions, and str.strip / str.rstrip
IsSpace(t) == t \in {"NL", "I4"}

\* tokens whose last character is a word character (for \b)
EndsWord(t) == t \in {"TGT", "RET"}

\* tokens whose first character is "}"
StartsRBrace(t) == t \in {"RB", "ELSE", "ELSEIF", "CATCH", "CLOSE"}

\* text[a:b] with Python's 0-based offsets
Slice(s, a, b) == SubSeq(s, a + 1, b)

From(s, a) == SubSeq(s, a + 1, Len(s))

\* first index >= i that holds no whitespace token (Len(s)+1 if none)
SkipSpaces(s, i) ==
    Min({j \in i..(Len(s) + 1) : j = Len(s) + 1 \/ ~IsSpace(s[j])})

StartsWith(s, pat) ==
    Len(s) >= Len(pat) /\ SubSeq(s, 1, Len(pat)) = pat

\* str.replace(pat, ""): every non-overlapping occurrence, left to right
RECURSIVE Remove(_, _)
Remove(s, pat) ==
    LET found == {i \in 1..Len(s) : StartsWith(From(s, i - 1), pat)}
    IN IF found = {} THEN s
       ELSE SubSeq(s, 1, Min(found) - 1)
                \o Remove(From(s, Min(found) - 1 + Len(pat)), pat)

RStrip(s) ==
    LET keep == {n \in 0..Len(s) : \A j \in (n + 1)..Len(s) : IsSpace(s[j])}
    IN SubSeq(s, 1, Min(keep))

Strip(s) ==
    LET r == RStrip(s)
    IN From(r, SkipSpaces(r, 1) - 1)

\* ------------------------------------------------------------ the header
LOADER_STANDALONE == <<"LDR">>

\* LOADER_IIFE_RE matched at the start of s: the number of tokens matched, or 0
LoaderIifeLen(s) ==
    IF s = <<>> \/ s[1] # "OPEN" THEN 0
    ELSE LET a == SkipSpaces(s, 2)
         IN IF a > Len(s) \/ s[a] # "LDR" THEN 0
            ELSE LET b == SkipSpaces(s, a + 1)
                 IN IF b > Len(s) \/ s[b] # "CLOSE" THEN 0 ELSE b

\* LOADER_IIFE_RE.sub("", text)
RECURSIVE LOADER_IIFE_RE_sub(_)
LOADER_IIFE_RE_sub(s) ==
    LET found == {i \in 1..Len(s) : LoaderIifeLen(From(s, i - 1)) > 0}
    IN IF found = {} THEN s
       ELSE SubSeq(s, 1, Min(found) - 1)
                \o LOADER_IIFE_RE_sub(
                       From(s, Min(found) - 1 + LoaderIifeLen(From(s, Min(found) - 1))))

\* ^ under re.M
LineStart(s, i) == i = 1 \/ s[i - 1] = "NL"

\* "\s*$" under re.M, matched greedily after token i: the offset where the
\* match ends, or -1 when no amount of whitespace reaches an end of line
LineEnd(s, i) ==
    LET ends == {q \in i..(SkipSpaces(s, i + 1) - 1) :
                    q = Len(s) \/ s[q + 1] = "NL"}
    IN IF ends = {} THEN -1 ELSE Max(ends)

\* the matches of r"^//@target illustrator\s*$"
TargetMatches(s) ==
    {i \in 1..Len(s) : s[i] = "TGT" /\ LineStart(s, i) /\ LineEnd(s, i) >= 0}

\* the matches of r"^app\.preferences\.setBooleanPreference\(...\)\s*;?\s*$"
PrefMatches(s) ==
    {i \in 1..Len(s) : s[i] = "PREF" /\ LineStart(s, i) /\ LineEnd(s, i) >= 0}

CanonicalTrio == <<"TGT", "NL">> \o LOADER_STANDALONE \o <<"NL", "PREF", "NL">>

\* an insertion place that ignores the leading doc-comment: not what the
\* code does, and C11 tells the two apart
HeaderAtStart(s) == 0

\* m_header: r"^/\*\*[\s\S]*?\*/\s*" at the start of the text
HeaderEnd(s) ==
    IF s # <<>> /\ s[1] = "DOC" THEN SkipSpaces(s, 2) - 1 ELSE 0

\* the three statements that strip the loader IIFE and the standalone loaders
StripLoaders(text) ==
    Remove(Remove(LOADER_IIFE_RE_sub(text), LOADER_STANDALONE \o <<"NL">>),
           <<"NL">> \o LOADER_STANDALONE)

\* text[:start] + the canonical trio + text[end:]
ReplaceSpan(text, start, end) ==
    Slice(text, 0, start) \o CanonicalTrio \o From(text, end)

\* text[:insert_pos] + block + text[insert_pos:]
InsertBlock(text, insert_pos, has_pref) ==
    Slice(text, 0, insert_pos)
        \o <<"NL", "TGT", "NL">> \o LOADER_STANDALONE \o <<"NL">>
        \o (IF has_pref THEN <<>> ELSE <<"PREF", "NL">>)
        \o From(text, insert_pos)

\* ensure_target_and_loader from has_target on: text has its loaders stripped
EnsureOrder(text) ==
    IF TargetMatches(text) # {} /\ PrefMatches(text) # {}
    THEN ReplaceSpan(text, Min(TargetMatches(text)) - 1,
                     LineEnd(text, Min(PrefMatches(text))))
    ELSE InsertBlock(text, HeaderEnd(text), PrefMatches(text) # {})

ensure_target_and_loader(original) == EnsureOrder(StripLoaders(original))

\* ------------------------------------------------------ the execute block
\* extract_cfg_script_name: r"scriptName\s*:\s*([\'\"])(.*?)\1"
extract_cfg_script_name(text) ==
    IF \E i \in 1..Len(text) : text[i] = "CFG" THEN "Foo error" ELSE "Script error"

\* "        AIS.Error.show('" + error_title + "', e);"
ShowLine(error_title) ==
    <<"I4", "I4", IF error_title = "Script error" THEN "SHOWD" ELSE "SHOWN">>

\* "\n".join(lines)
RECURSIVE Join(_)
Join(lines) ==
    IF lines = <<>> THEN <<>>
    ELSE IF Len(lines) = 1 THEN lines[1]
    ELSE lines[1] \o <<"NL">> \o Join(Tail(lines))

\* re.search(r"alert\((.*?)\)\s*;", g, re.S) (lax) and
\* re.search(r"alert\((.*?)\);", g, re.S) (not lax): <<group(1)>>, or <<>>
AlertSearch(g, lax) ==
    LET alerts == {a \in 1..Len(g) : g[a] = "ALERT"}
    IN IF alerts = {} THEN <<>>
       ELSE LET a == Min(alerts)
                closes == {r \in (a + 1)..Len(g) :
                              /\ g[r] = "RP"
                              /\ LET k == IF lax THEN SkipSpaces(g, r + 1) ELSE r + 1
                                 IN k <= Len(g) /\ g[k] = "SEMI"}
            IN IF closes = {} THEN <<>>
               ELSE <<SubSeq(g, a + 1, Min(closes) - 1)>>

TryMainLines(error_title) ==
    << <<"I4", "TRY">>,
       <<"I4", "I4", "MAIN">>,
       <<"I4", "CATCH">>,
       ShowLine(error_title),
       <<"I4", "RB">>,
       <<"RB">> >>

Banner == << <<"NL", "BAR">>, <<"EXE">>, <<"BAR", "NL">> >>

\* None is the empty sequence; a check or a block, when given, is not empty
build_execute_block(doc_check, sel_check, error_title, validate_block) ==
    IF validate_block # <<>>
    THEN LET m_alert == AlertSearch(validate_block, FALSE)
             alert == IF m_alert # <<>>
                      THEN <<"I4", "ALERT">> \o Strip(m_alert[1]) \o <<"RP", "SEMI">>
                      ELSE <<"I4", "ALERT", "DEFMSG", "RP", "SEMI">>
         IN Join(Banner \o << <<"VAL">>, <<"IFVAL">>, alert, <<"ELSE">> >>
                 \o TryMainLines(error_title)) \o <<"NL">>
    ELSE IF doc_check # <<>> /\ sel_check # <<>>
    THEN Join(Banner \o << <<"IFDOC">>, <<"I4">> \o doc_check,
                           <<"ELSEIF">>, <<"I4">> \o sel_check, <<"ELSE">> >>
              \o TryMainLines(error_title)) \o <<"NL">>
    ELSE IF doc_check # <<>>
    THEN Join(Banner \o << <<"IFDOC">>, <<"I4">> \o doc_check, <<"ELSE">> >>
              \o TryMainLines(error_title)) \o <<"NL">>
    ELSE IF sel_check # <<>>
    THEN Join(Banner \o << <<"IFSEL">>, <<"I4">> \o sel_check, <<"ELSE">> >>
              \o TryMainLines(error_title)) \o <<"NL">>
    ELSE Join(Banner \o << <<"TRY">>, <<"I4", "MAIN">>, <<"CATCH">>,
                           <<"I4", IF error_title = "Script error"
                                   THEN "SHOWD" ELSE "SHOWN">>,
                           <<"RB">> >>) \o <<"NL">>

\* re.sub(r"\breturn\s*;", "", s), from token i on
RECURSIVE StripReturnsFrom(_, _)
StripReturnsFrom(s, i) ==
    LET found == {k \in i..Len(s) :
                     /\ s[k] = "RET"
                     /\ (k = 1 \/ ~EndsWord(s[k - 1]))
                     /\ SkipSpaces(s, k + 1) <= Len(s)
                     /\ s[SkipSpaces(s, k + 1)] = "SEMI"}
    IN IF found = {} THEN SubSeq(s, i, Len(s))
       ELSE SubSeq(s, i, Min(found) - 1)
                \o StripReturnsFrom(s, SkipSpaces(s, Min(found) + 1) + 1)

strip_returns(s) == StripReturnsFrom(s, 1)

\* ------------------------------------------------------------ the wrapper
\* re.finditer(r"\(function\(\)\s*\{([\s\S]*?)\}\)\(\);", text) from token p
\* on: the spans <<i, j>> (OPEN at i, the first CLOSE after it at j)
RECURSIVE IifeSpansFrom(_, _)
IifeSpansFrom(s, p) ==
    LET opens == {i \in p..Len(s) :
                     s[i] = "OPEN" /\ \E j \in (i + 1)..Len(s) : s[j] = "CLOSE"}
    IN IF opens = {} THEN <<>>
       ELSE LET i == Min(opens)
                j == Min({k \in (i + 1)..Len(s) : s[k] = "CLOSE"})
            IN << <<i, j>> >> \o IifeSpansFrom(s, j + 1)

all_iifes(text) == IifeSpansFrom(text, 1)

\* mm.group(1)
Body(s, span) == SubSeq(s, span[1] + 1, span[2] - 1)

\* re.search(r"\bmain\s*\(\s*\)\s*;", content)
CallsMain(content) ==
    \E i \in 1..Len(content) :
        content[i] = "MAIN" /\ (i = 1 \/ ~EndsWord(content[i - 1]))

\* a choice that takes the first span whatever its body calls: not what the
\* code does, and C10 tells the two apart
ChooseFirst(text, spans) == spans[1]

\* the loop over all_iifes, and the fallback to the first one
ChooseFrom(text, spans) ==
    LET withMain == {k \in 1..Len(spans) : CallsMain(Body(text, spans[k]))}
    IN IF withMain # {} THEN spans[Min(withMain)] ELSE spans[1]

Chosen(text) == ChooseFrom(text, all_iifes(text))

\* re.search(r"if\s*\(\s*!\s*AIS\.Document\.has...\(\)\s*\)\s*\{([\s\S]*?)\}",
\* content): <<group(1)>>, or <<>>
GuardSearch(content, openers) ==
    LET starts == {i \in 1..Len(content) :
                      /\ content[i] \in openers
                      /\ \E j \in (i + 1)..Len(content) : StartsRBrace(content[j])}
    IN IF starts = {} THEN <<>>
       ELSE LET i == Min(starts)
                j == Min({k \in (i + 1)..Len(content) : StartsRBrace(content[k])})
            IN <<SubSeq(content, i + 1, j - 1)>>

\* doc_check / sel_check: the alert of the guard, or None (<<>>)
GuardCheck(content, openers) ==
    LET m == GuardSearch(content, openers)
        alert == IF m = <<>> THEN <<>> ELSE AlertSearch(m[1], TRUE)
    IN IF alert = <<>> THEN <<>>
       ELSE strip_returns(<<"ALERT">> \o Strip(alert[1]) \o <<"RP", "SEMI">>)

\* re.search(r"validateEnvironment\s*\(\s*\)", content)
CallsValidate(content) == \E i \in 1..Len(content) : content[i] = "VAL"

\* return text, text != original
Returned(text, original) == <<text, text # original>>

\* from "error_title = ..." on: text is the text without the chosen IIFE,
\* content the body of that IIFE
AppendExecute(original, text, content) ==
    Returned(RStrip(text) \o <<"NL">>
                 \o build_execute_block(GuardCheck(content, {"IFDOC"}),
                                        GuardCheck(content, {"IFSEL", "ELSEIF"}),
                                        extract_cfg_script_name(text),
                                        IF CallsValidate(content) THEN content
                                        ELSE <<>>),
             original)

\* from "content = chosen.group(1)" on
RemoveChosen(original, chosen) ==
    AppendExecute(original,
                  Slice(original, 0, chosen[1] - 1) \o From(original, chosen[2]),
                  Body(original, chosen))

\* a wrapper stage that appends a no-guard EXECUTE block to a text without
\* an IIFE: not what the code does, and C5 tells the two apart
AppendWithoutWrapper(original) ==
    IF all_iifes(original) = <<>> THEN AppendExecute(original, original, <<>>)
    ELSE RemoveChosen(original, Chosen(original))

\* <<new_text, changed>>
remove_wrapper_and_build_execute(original) ==
    IF all_iifes(original) = <<>> THEN <<original, FALSE>>
    ELSE RemoveChosen(original, Chosen(original))

\* ------------------------------------------------------------- the file
\* the locals of process_jsx_file on text: new_text and text2 are the two
\* stages' results, final is what `text` holds at the `if changed:` test
Locals(text, new_text, r) ==
    [text |-> text,
     new_text |-> new_text,
     text2 |-> r[1],
     changed2 |-> r[2],
     final |-> IF r[2] THEN r[1] ELSE new_text,
     changed |-> (new_text # text) \/ r[2]]

Step2(text, new_text) ==
    Locals(text, new_text, remove_wrapper_and_build_execute(new_text))

Process(text) == Step2(text, ensure_target_and_loader(text))

NoCall ==
    [path |-> 0, text |-> <<>>, new_text |-> <<>>, text2 |-> <<>>,
     changed2 |-> FALSE, final |-> <<>>, changed |-> FALSE,
     wrote |-> FALSE, raised |-> FALSE]

\* read_text raises on file p, or write_text does when it is reached
Raises(p, r) ==
    \/ fault[p] = "read"
    \/ fault[p] = "write" /\ r.changed

\* the outcome of process_jsx_file(p), r being its locals: it returns
\* r.changed after writing the file if r.changed, or it raises and nothing
\* is written
Outcome(p, r) ==
    IF Raises(p, r)
    THEN /\ disk' = disk
         /\ cur' = [NoCall EXCEPT !.path = p, !.raised = TRUE]
    ELSE /\ disk' = IF r.changed THEN [disk EXCEPT ![p] = r.final] ELSE disk
         /\ cur' = [path |-> p, text |-> r.text, new_text |-> r.new_text,
                    text2 |-> r.text2, changed2 |-> r.changed2,
                    final |-> r.final, changed |-> r.changed,
                    wrote |-> r.changed, raised |-> FALSE]

process_jsx_file(p) == Outcome(p, Process(disk[p]))

\* ------------------------------------------------------------ the inputs
RECURSIVE Concats(_, _)
Concats(S, n) ==
    IF n = 0 THEN {<<>>}
    ELSE LET prev == Concats(S, n - 1)
         IN prev \cup {a \o b : a \in S, b \in prev}

HeadSegs ==
    { <<"TGT", "NL">>, <<"PREF", "NL">>, <<"LDR", "NL">>,
      <<"OPEN", "LDR", "CLOSE", "NL">>, <<"CODE", "NL">>, <<"NL">>,
      <<"DOC", "NL">> }

\* the string literals of the alerts, around the message word w
Plain(w) == <<"SQ", w, "SQ">>
LitsAll(w) ==
    { Plain(w),
      <<"SQ", w, "RP", w, "SQ">>,
      <<"SQ", w, "SEMI", w, "SQ">>,
      <<"SQ", w, "RB", w, "SQ">>,
      <<"SQ", w, "RET", "SEMI", w, "SQ">>,
      <<"SQ", w, "RP", "SEMI", w, "SQ">> }
LitsSome(w) ==
    { Plain(w), <<"SQ", w, "RB", w, "SQ">>, <<"SQ", w, "RET", "SEMI", w, "SQ">> }

DocGuard(lit) ==
    <<"IFDOC", "NL", "I4", "ALERT">> \o lit
        \o <<"RP", "SEMI", "NL", "I4", "RET", "SEMI", "NL", "RB", "NL">>
SelGuard(lit) ==
    <<"IFSEL", "ALERT", "I4">> \o lit
        \o <<"I4", "RP", "I4", "SEMI", "RET", "I4", "SEMI", "RB", "NL">>
ValGuard ==
    <<"VAL", "NL", "IFVAL", "NL", "I4", "ALERT", "VMSG", "RP", "SEMI", "NL",
      "I4", "RET", "SEMI", "NL", "RB", "NL">>
ValGuardSilent == <<"VAL", "NL", "IFVAL", "RET", "SEMI", "RB", "NL">>

Wrapper(inner) == <<"OPEN", "NL">> \o inner \o <<"CLOSE", "NL">>

Wrappers ==
    { Wrapper(<<"MAIN", "NL">>), Wrapper(<<"CODE", "NL">>),
      Wrapper(ValGuard \o <<"MAIN", "NL">>),
      Wrapper(ValGuardSilent \o <<"MAIN", "NL">>),
      Wrapper(ValGuard \o DocGuard(Plain("WD")) \o <<"MAIN", "NL">>) }
    \cup {Wrapper(DocGuard(l) \o <<"MAIN", "NL">>) : l \in LitsAll("WD")}
    \cup {Wrapper(SelGuard(l) \o <<"MAIN", "NL">>) : l \in LitsSome("WS")}
    \cup {Wrapper(DocGuard(l) \o SelGuard(Plain("WS")) \o <<"MAIN", "NL">>) :
             l \in LitsSome("WD")}

TailSegs == Wrappers \cup { <<"CODE", "NL">>, <<"CFG", "NL">> }

Heads == Concats(HeadSegs, MaxHeadSegs)
Tails == Concats(TailSegs, MaxTailSegs)
FewHeads == { <<>>, <<"DOC", "NL">> \o CanonicalTrio \o <<"NL">> }
FewTails == { <<>>, <<"CFG", "NL">> \o Wrapper(<<"MAIN", "NL">>) }

\* the execute block of a wrapper without guards, token by token
NoGuardBlock(show) ==
    <<"NL", "BAR", "NL", "EXE", "NL", "BAR", "NL", "NL",
      "TRY", "NL", "I4", "MAIN", "NL", "CATCH", "NL", "I4", show, "NL", "RB", "NL">>

\* files already in the canonical form: the header trio, code, no wrapper and
\* one execute block; with and without a leading doc-comment, and with and
\* without an empty line after the preference statement
CanonicalFiles ==
    {d \o CanonicalTrio \o sep \o <<"CODE", "NL">> \o NoGuardBlock("SHOWD") :
        d \in {<<>>, <<"DOC", "NL">>}, sep \in {<<>>, <<"NL">>}}

Inputs ==
    {h \o t : h \in Heads, t \in FewTails}
        \cup {h \o t : h \in FewHeads, t \in Tails}
        \cup CanonicalFiles

DriverInputs ==
    { <<"CODE", "NL">>,
      Wrapper(<<"MAIN", "NL">>),
      CanonicalTrio \o <<"NL", "CODE", "NL">> }

\* ------------------------------------------------------- the normaliser
\* one file, normalised again and again
Init ==
    /\ disk \in [{1} -> Inputs]
    /\ jsx = [p \in {1} |-> TRUE]
    /\ fault = [p \in {1} |-> "none"]
    /\ pc = "idle" /\ idx = 0 /\ files = 0 /\ count = 0 /\ printed = <<>>
    /\ cur = NoCall
    /\ runs = 0

Normalise ==
    /\ runs < MaxRuns
    /\ process_jsx_file(1)
    /\ ~cur'.raised
    /\ runs' = runs + 1
    /\ UNCHANGED <<jsx, fault, pc, idx, files, count, printed>>

Next == Normalise

Spec == Init /\ [][Next]_vars

\* ------------------------------------------------------------ the driver
\* main() over a directory of NumFiles files, walked in the order 1..NumFiles
DriverInit ==
    /\ disk \in [1..NumFiles -> DriverInputs]
    /\ jsx \in [1..NumFiles -> BOOLEAN]
    /\ fault \in [1..NumFiles -> {"none", "read", "write"}]
    /\ pc = "idle" /\ idx = 0 /\ files = 0 /\ count = 0 /\ printed = <<>>
    /\ cur = NoCall
    /\ runs = 0

\* count = 0; files = 0; the walk begins
MainStart ==
    /\ pc \in {"idle", "done", "raised"}
    /\ runs < MaxRuns
    /\ pc' = "walk" /\ idx' = 1 /\ files' = 0 /\ count' = 0 /\ printed' = <<>>
    /\ runs' = runs + 1
    /\ UNCHANGED <<disk, jsx, fault, cur>>

\* a file name that does not end with ".jsx"
MainSkip ==
    /\ pc = "walk" /\ idx <= NumFiles /\ ~jsx[idx]
    /\ idx' = idx + 1
    /\ UNCHANGED <<disk, jsx, fault, pc, files, count, printed, cur, runs>>

\* files += 1; if process_jsx_file(p): count += 1.  When the call raises,
\* nothing in main() catches it: the exception leaves the loop and main()
MainVisit ==
    /\ pc = "walk" /\ idx <= NumFiles /\ jsx[idx]
    /\ process_jsx_file(idx)
    /\ files' = files + 1
    /\ IF cur'.raised
       THEN pc' = "raised" /\ UNCHANGED <<idx, count>>
       ELSE /\ count' = IF cur'.changed THEN count + 1 ELSE count
            /\ idx' = idx + 1
            /\ pc' = pc
    /\ UNCHANGED <<jsx, fault, printed, runs>>

\* print(f"Processed {files} .jsx files; modified {count}.")
MainPrint ==
    /\ pc = "walk" /\ idx > NumFiles
    /\ printed' = <<files, count>>
    /\ pc' = "done"
    /\ UNCHANGED <<disk, jsx, fault, idx, files, count, cur, runs>>

DriverNext == MainStart \/ MainSkip \/ MainVisit \/ MainPrint

DriverSpec == DriverInit /\ [][DriverNext]_vars

\* ------------------------------------------------------------- the claims
Occ(s, tok) == {i \in 1..Len(s) : s[i] = tok}
Count(s, tok) == Cardinality(Occ(s, tok))
IsPrefix(a, s) == Len(a) <= Len(s) /\ SubSeq(s, 1, Len(a)) = a
IsSuffix(a, s) == Len(a) <= Len(s) /\ SubSeq(s, Len(s) - Len(a) + 1, Len(s)) = a
Contains(s, a) ==
    \E i \in 1..(Len(s) - Len(a) + 1) : SubSeq(s, i, i + Len(a) - 1) = a
Called == cur.path # 0 /\ ~cur.raised

\* a self-invoking wrapper: "(function(){" with a "})();" after it
HasWrapper(t) ==
    \E i \in 1..Len(t) : \E j \in (i + 1)..Len(t) : t[i] = "OPEN" /\ t[j] = "CLOSE"

\* a self-invoking wrapper whose body calls main()
HasMainWrapper(t) ==
    \E i \in 1..Len(t) : \E m \in (i + 1)..Len(t) : \E j \in (m + 1)..Len(t) :
        /\ t[i] = "OPEN" /\ t[m] = "MAIN" /\ t[j] = "CLOSE"
        /\ \A k \in (i + 1)..(m - 1) : t[k] # "CLOSE"

\* a script: a text that holds a statement
IsScript(t) == \E i \in 1..Len(t) : t[i] \in {"CODE", "CFG", "MAIN"}

\* C1: running process_jsx_file a second time, on the output that the first
\* run gave for a script, leaves the file as it is and returns
\* changed = false.
C1_Idempotent ==
    (runs = 2 /\ IsScript(cur.text)) =>
        (~cur.changed /\ ~cur.wrote /\ disk[1] = cur.text)

\* C2: the output of ensure_target_and_loader holds exactly one pragma line,
\* exactly one loader snippet and exactly one preference statement, in that
\* order; stated for the inputs that hold one pragma line and one preference
\* line.
C2_HeaderInvariant ==
    (Called /\ Count(cur.text, "TGT") = 1 /\ Count(cur.text, "PREF") = 1) =>
        /\ Count(cur.new_text, "TGT") = 1
        /\ Count(cur.new_text, "LDR") = 1
        /\ Count(cur.new_text, "PREF") = 1
        /\ \E i \in Occ(cur.new_text, "TGT") : \E j \in Occ(cur.new_text, "LDR") :
               \E k \in Occ(cur.new_text, "PREF") : i < j /\ j < k

\* C3: after remove_wrapper_and_build_execute, and after the whole pipeline,
\* no self-invoking wrapper that calls main() is left and the text holds
\* exactly one EXECUTE block; stated for the texts that hold a wrapper that
\* calls main().
C3_WrapperRemoved ==
    (Called /\ HasMainWrapper(cur.new_text)) =>
        /\ ~HasMainWrapper(cur.text2) /\ Count(cur.text2, "EXE") = 1
        /\ ~HasMainWrapper(disk[1]) /\ Count(disk[1], "EXE") = 1

\* C4: a file whose processing raises does not end the run: when main() has
\* ended, every file has been visited and the summary has been printed.
C4_FailureIsolation ==
    pc \in {"done", "raised"} => (idx = NumFiles + 1 /\ printed # <<>>)

\* the text without the tokens i..j
Without(t, i, j) == SubSeq(t, 1, i - 1) \o SubSeq(t, j + 1, Len(t))

\* a text with one self-invoking wrapper, which holds no guard and no
\* validation call
HasOneBareWrapper(t) ==
    /\ Count(t, "OPEN") = 1 /\ Count(t, "CLOSE") = 1
    /\ \E i \in Occ(t, "OPEN") : \E j \in Occ(t, "CLOSE") :
           /\ i < j
           /\ \A k \in (i + 1)..(j - 1) : t[k] \notin {"VAL", "IFDOC", "IFSEL", "ELSEIF"}

IsCanonical(t) ==
    /\ Contains(t, CanonicalTrio)
    /\ Count(t, "TGT") = 1 /\ Count(t, "LDR") = 1 /\ Count(t, "PREF") = 1
    /\ ~HasWrapper(t)
    /\ Count(t, "EXE") = 1

\* C6: process_jsx_file writes the file exactly when a stage gave a text
\* that differs from its input, and returns true exactly when it wrote; a
\* file in canonical form is not written and false is returned.
C6_WriteIfChanged ==
    Called =>
        /\ cur.wrote <=> (cur.new_text # cur.text \/ cur.text2 # cur.new_text)
        /\ cur.changed <=> cur.wrote
        /\ IsCanonical(cur.text) =>
               (~cur.wrote /\ ~cur.changed /\ disk[cur.path] = cur.text)

\* the body of the wrapper that the wrapper stage chose
ChosenBody == Body(cur.new_text, Chosen(cur.new_text))

\* an inline guard: the conditional, opened by one of openers, whose first
\* statement is an alert
HasGuard(body, openers) ==
    \E i \in 1..Len(body) :
        /\ body[i] \in openers
        /\ SkipSpaces(body, i + 1) <= Len(body)
        /\ body[SkipSpaces(body, i + 1)] = "ALERT"

\* the string literal of that alert, from its opening to its closing quote
GuardLiteral(body, openers) ==
    LET i == Min({k \in 1..Len(body) : body[k] \in openers})
        q1 == Min({k \in (i + 1)..Len(body) : body[k] = "SQ"})
        q2 == Min({k \in (q1 + 1)..Len(body) : body[k] = "SQ"})
    IN SubSeq(body, q1, q2)

\* the EXECUTE block at the end of the text, from its "// EXECUTE" line on
ExecBlock(t) == From(t, Max(Occ(t, "EXE")))

\* C7: the failing branch of the EXECUTE block alerts with exactly the
\* literal of the chosen wrapper's guard, for the document guard and for the
\* selection guard; stated for the wrappers without a validation call.
C7_MessagePreserved ==
    (Called /\ HasWrapper(cur.new_text) /\ Count(ChosenBody, "VAL") = 0) =>
        /\ HasGuard(ChosenBody, {"IFDOC"}) =>
               Contains(ExecBlock(cur.text2),
                        <<"IFDOC", "NL", "I4", "ALERT">>
                            \o GuardLiteral(ChosenBody, {"IFDOC"})
                            \o <<"RP", "SEMI", "NL">>)
        /\ HasGuard(ChosenBody, {"IFSEL"}) =>
               \E o \in {"IFSEL", "ELSEIF"} :
                   Contains(ExecBlock(cur.text2),
                            <<o, "NL", "I4", "ALERT">>
                                \o GuardLiteral(ChosenBody, {"IFSEL"})
                                \o <<"RP", "SEMI", "NL">>)

\* the statements that give an EXECUTE block its shape
IsShapeToken(x) ==
    x \in {"VAL", "IFVAL", "IFDOC", "IFSEL", "ELSEIF", "ELSE", "TRY", "MAIN",
           "CATCH", "SHOWD", "SHOWN"}
ShapeOf(block) == SelectSeq(block, IsShapeToken)

\* the conditionals that the body of a wrapper asks for
Conditionals(body) ==
    IF Count(body, "VAL") > 0 THEN <<"VAL", "IFVAL", "ELSE">>
    ELSE IF HasGuard(body, {"IFDOC"}) /\ HasGuard(body, {"IFSEL"})
         THEN <<"IFDOC", "ELSEIF", "ELSE">>
    ELSE IF HasGuard(body, {"IFDOC"}) THEN <<"IFDOC", "ELSE">>
    ELSE IF HasGuard(body, {"IFSEL"}) THEN <<"IFSEL", "ELSE">>
    ELSE <<>>

\* C8: the EXECUTE block has the shape that the chosen wrapper's body asks
\* for: the validation form when it calls validateEnvironment(), else one
\* conditional for each inline guard, each with its alert; main() is called
\* once, in a try/catch that reports through AIS.Error.show.
C8_GuardKindFidelity ==
    (Called /\ HasWrapper(cur.new_text)) =>
        /\ \E show \in {"SHOWD", "SHOWN"} :
               ShapeOf(ExecBlock(cur.text2))
                   = Conditionals(ChosenBody) \o <<"TRY", "MAIN", "CATCH", show>>
        /\ Count(ExecBlock(cur.text2), "ALERT")
               = Count(Conditionals(ChosenBody), "IFVAL")
                   + Count(Conditionals(ChosenBody), "IFDOC")
                   + Count(Conditionals(ChosenBody), "IFSEL")
                   + Count(Conditionals(ChosenBody), "ELSEIF")

\* the places of the canonical trio in a text
TrioPlaces(t) ==
    {i \in 1..(Len(t) - Len(CanonicalTrio) + 1) :
        SubSeq(t, i, i + Len(CanonicalTrio) - 1) = CanonicalTrio}

\* C9: when the text holds a pragma line and a preference line, in either
\* order, the output holds the canonical trio once, and the text outside the
\* span of the two lines is neither duplicated nor lost.
C9_ScenarioA ==
    (Called /\ TargetMatches(cur.text) # {} /\ PrefMatches(cur.text) # {}) =>
        LET t == StripLoaders(cur.text)
            a == Min(TargetMatches(t))
            b == Min(PrefMatches(t))
            lo == IF a < b THEN a ELSE b
            hi == IF a < b THEN b ELSE a
        IN /\ Cardinality(TrioPlaces(cur.new_text)) = 1
           /\ Count(cur.new_text, "LDR") = 1
           /\ \A k \in {"TGT", "PREF", "CODE", "CFG", "DOC", "MAIN"} :
                  Count(cur.new_text, k) <= Count(cur.text, k)
           /\ IsPrefix(SubSeq(t, 1, lo - 1), cur.new_text)
           /\ IsSuffix(From(t, SkipSpaces(t, hi + 1) - 1), cur.new_text)

\* C10: of the wrapper spans of the text, the one removed is the first whose
\* body calls main(), or the first span when none does, and an EXECUTE block
\* is appended; no other span is removed; a text without spans is returned
\* as it is, with changed = false.
C10_WrapperSelection ==
    Called =>
        LET t == cur.new_text
            spans == all_iifes(t)
            withMain == {k \in 1..Len(spans) : Count(Body(t, spans[k]), "MAIN") > 0}
            k == IF withMain = {} THEN 1 ELSE Min(withMain)
            kept == RStrip(Without(t, spans[k][1], spans[k][2]))
        IN IF spans = <<>>
           THEN cur.text2 = t /\ ~cur.changed2
           ELSE /\ cur.changed2
                /\ IsPrefix(kept \o <<"NL", "NL", "BAR", "NL", "EXE", "NL">>, cur.text2)
                /\ Count(From(cur.text2, Len(kept)), "EXE") = 1
                /\ Count(From(cur.text2, Len(kept)), "OPEN") = 0
                /\ Count(From(cur.text2, Len(kept)), "CLOSE") = 0

\* the first wrapper does not call main() and a later one does: the later
\* one was removed
C10_Witness ==
    /\ Called
    /\ Len(all_iifes(cur.new_text)) >= 2
    /\ Count(Body(cur.new_text, all_iifes(cur.new_text)[1]), "MAIN") = 0
    /\ Count(Body(cur.new_text, all_iifes(cur.new_text)[2]), "MAIN") > 0
    /\ Count(cur.text2, "OPEN") = Count(cur.new_text, "OPEN") - 1
    /\ Count(cur.text2, "MAIN") = Count(cur.new_text, "MAIN")

\* the block that the insertion path puts into a text: the pragma and the
\* loader, and the preference statement when the text holds no preference line
HeaderBlock(t) ==
    <<"NL", "TGT", "NL", "LDR", "NL">>
        \o (IF PrefMatches(t) = {} THEN <<"PREF", "NL">> ELSE <<>>)

\* the end of the leading doc-comment of t and of the whitespace after it:
\* p when t begins with a doc-comment, 0 is the only place when it does not
IsAfterLeadingDoc(t, p) ==
    IF t # <<>> /\ t[1] = "DOC"
    THEN /\ p >= 1
         /\ \A k \in 2..p : IsSpace(t[k])
         /\ (p = Len(t) \/ ~IsSpace(t[p + 1]))
    ELSE p = 0

=============================================================================
